---- MODULE Spec2Model ----
(***************************************************************************)
(* Speaker-to-transcript alignment of the AI meeting notetaker backend.    *)
(*                                                                         *)
(* Time is counted in ticks of 0.1 s (a datetime is a number of ticks, a   *)
(* timedelta(seconds=s) is 10*s ticks).  A text is a sequence of           *)
(* characters; the character " " is whitespace.  An Optional value is a    *)
(* sequence of length 0 (None) or 1.  A confidence is in hundredths.       *)
(***************************************************************************)
EXTENDS Integers, Sequences, FiniteSets, TLC

VARIABLES
    \* the datastore
    audio_chunks,           \* chunk -> None | Some(AudioChunk row)
    speaker_events,         \* the SpeakerEvent rows, in insertion order
    speaker_transcripts,    \* the SpeakerTranscript rows, in insertion order
    meetings,               \* meeting -> None | Some(Meeting row)
    \* the runners of transcribe_chunk_async and of the orchestrator
    run,                    \* chunk -> the runner's position and locals
    mapper_calls,           \* chunk -> invocations of the orchestrator so far
    broadcasts,             \* ids of the rows handed to the broadcast channel
    checkpoints,            \* the (meeting, chunk number) checkpoint tasks queued, in order
    \* a timeline lookup on its own
    l_time, l_events, l_result, l_pc,
    \* an alignment run on its own
    a_words, a_events, a_anchor, a_mapping, a_segments, a_rows, a_pc

store_vars == <<audio_chunks, speaker_events, speaker_transcripts, meetings>>
pipeline_vars == <<store_vars, run, mapper_calls, broadcasts, checkpoints>>
lookup_vars == <<l_time, l_events, l_result, l_pc>>
align_vars == <<a_words, a_events, a_anchor, a_mapping, a_segments, a_rows, a_pc>>
vars == <<pipeline_vars, lookup_vars, align_vars>>

(***************************************************************************)
(* Bounds and input domains                                                *)
(***************************************************************************)
MaxWords == 3
MaxEvents == 2

None == <<>>
Some(x) == <<x>>
NULL == "NULL"

\* Words of a transcription result: text, relative start and end in ticks.
\* "" is also the text word_data.get('word', '') gives a word without one.
Word(text, start, end) == [word |-> text, start |-> start, end |-> end]
WordChoices ==
    { Word(<<"a">>, 0, 1), Word(<<"a">>, 1, 2), Word(<<"b">>, 1, 3),
      Word(<<>>, 0, 1), Word(<<"a", " ", "b">>, 1, 2) }
AlignAnchors == {10}

Event(id, name, t) == [member_id |-> id, member_name |-> name, speaker_started_at |-> t]
\* Speaker events of the alignment runs: member_id and member_name are nullable.
AlignEventChoices ==
    { Event("A", "Alice", 10), Event("B", "Bob", 11), Event(NULL, NULL, 11),
      Event("B", "Bob", 61), Event(NULL, NULL, 61) }
\* Speaker events and instants of the timeline lookups.
LookupInstants == {10, 11}
LookupEventChoices ==
    { Event(id, id, t) : id \in {"A", "B"}, t \in {9, 10, 11, 59, 60, 61, 62} }

SeqsUpTo(S, n) == UNION { [1..k -> S] : k \in 0..n }

\* The result of ORDER BY speaker_started_at: ascending, ties in any order.
IsOrdered(events) ==
    \A i \in 1..Len(events) - 1 :
        events[i].speaker_started_at <= events[i + 1].speaker_started_at

(***************************************************************************)
(* Program constants                                                       *)
(***************************************************************************)
LOOK_AHEAD_WINDOW == 50
ConfidenceFound == 95
ConfidenceUnknown == 30
UnknownSpeaker == <<"Unknown Speaker">>

(***************************************************************************)
(* Text operations (str.strip, str.split)                                  *)
(***************************************************************************)
IsSpace(ch) == ch = " "

RECURSIVE lstrip(_)
lstrip(text) ==
    IF text # <<>> /\ IsSpace(Head(text)) THEN lstrip(Tail(text)) ELSE text

RECURSIVE rstrip(_)
rstrip(text) ==
    IF text # <<>> /\ IsSpace(text[Len(text)])
    THEN rstrip(SubSeq(text, 1, Len(text) - 1))
    ELSE text

strip(text) == rstrip(lstrip(text))

\* str.split(): the maximal runs of non-whitespace characters, in order.
RECURSIVE SplitFrom(_, _, _)
SplitFrom(text, cur, acc) ==
    IF text = <<>>
    THEN IF cur = <<>> THEN acc ELSE Append(acc, cur)
    ELSE IF IsSpace(Head(text))
         THEN SplitFrom(Tail(text), <<>>, IF cur = <<>> THEN acc ELSE Append(acc, cur))
         ELSE SplitFrom(Tail(text), Append(cur, Head(text)), acc)

split(text) == SplitFrom(text, <<>>, <<>>)

(***************************************************************************)
(* _find_active_speaker_at_time                                            *)
(***************************************************************************)
\* First loop: the last event of the leading run of events that started
\* at or before word_time (the loop breaks at the first later event).
RECURSIVE ScanMostRecent(_, _, _, _)
ScanMostRecent(word_time, speaker_events_data, i, active_speaker) ==
    IF i > Len(speaker_events_data) THEN active_speaker
    ELSE IF speaker_events_data[i].speaker_started_at <= word_time
         THEN ScanMostRecent(word_time, speaker_events_data, i + 1,
                             Some(speaker_events_data[i]))
         ELSE active_speaker

\* Second loop: the first event after word_time, if it lies in the window.
RECURSIVE ScanLookAhead(_, _, _)
ScanLookAhead(word_time, speaker_events_data, i) ==
    IF i > Len(speaker_events_data) THEN None
    ELSE IF speaker_events_data[i].speaker_started_at > word_time
         THEN IF speaker_events_data[i].speaker_started_at <= word_time + LOOK_AHEAD_WINDOW
              THEN Some(speaker_events_data[i])
              ELSE None
         ELSE ScanLookAhead(word_time, speaker_events_data, i + 1)

\* Faulty variants of the lookup: an event that starts exactly at word_time
\* is not yet active; the latest event of the window is preferred.
ScanStrictlyBefore(word_time, speaker_events_data) ==
    LET before == { i \in 1..Len(speaker_events_data) :
                      speaker_events_data[i].speaker_started_at < word_time }
    IN  IF before = {} THEN ScanLookAhead(word_time, speaker_events_data, 1)
        ELSE Some(speaker_events_data[CHOOSE i \in before : \A j \in before : j <= i])

ScanLatestInWindow(word_time, speaker_events_data) ==
    LET direct == ScanMostRecent(word_time, speaker_events_data, 1, None)
        inwin == { i \in 1..Len(speaker_events_data) :
                     /\ speaker_events_data[i].speaker_started_at > word_time
                     /\ speaker_events_data[i].speaker_started_at
                            <= word_time + LOOK_AHEAD_WINDOW }
    IN  IF direct # None THEN direct
        ELSE IF inwin = {} THEN None
        ELSE Some(speaker_events_data[CHOOSE i \in inwin : \A j \in inwin : j <= i])

\* Faulty variant: an event counts as the most recent one only when it
\* started within the window before word_time.
FindActiveSpeakerLookBack(word_time, speaker_events_data) ==
    LET recent == { i \in 1..Len(speaker_events_data) :
                      /\ speaker_events_data[i].speaker_started_at <= word_time
                      /\ speaker_events_data[i].speaker_started_at
                             >= word_time - LOOK_AHEAD_WINDOW }
    IN  IF recent # {}
        THEN Some(speaker_events_data[CHOOSE i \in recent : \A j \in recent : j <= i])
        ELSE ScanLookAhead(word_time, speaker_events_data, 1)

_find_active_speaker_at_time(word_time, speaker_events_data) ==
    LET active_speaker == ScanMostRecent(word_time, speaker_events_data, 1, None)
    IN  IF active_speaker # None THEN active_speaker
        ELSE ScanLookAhead(word_time, speaker_events_data, 1)

(***************************************************************************)
(* _map_words_to_speakers                                                  *)
(***************************************************************************)
Attribution(word_data, chunk_start_time, speaker_data) ==
    [ word |-> word_data.word,
      start_time |-> chunk_start_time + word_data.start,
      end_time |-> chunk_start_time + word_data.end,
      speaker |-> speaker_data,
      confidence |-> IF speaker_data # None THEN ConfidenceFound ELSE ConfidenceUnknown ]

\* Faulty variant: the speaker is looked up at the moment the word ended.
MapWordsAtWordEnd(words, speaker_events_data, chunk_start_time) ==
    [ i \in 1..Len(words) |->
        Attribution(words[i], chunk_start_time,
            _find_active_speaker_at_time(chunk_start_time + words[i].end,
                                         speaker_events_data)) ]

\* Faulty variant: a found speaker gets the default confidence of the column (0.5).
MapWordsDefaultConfidence(words, speaker_events_data, chunk_start_time) ==
    [ i \in 1..Len(words) |->
        LET speaker_data == _find_active_speaker_at_time(
                                chunk_start_time + words[i].start, speaker_events_data)
        IN  [ Attribution(words[i], chunk_start_time, speaker_data)
                EXCEPT !.confidence = IF speaker_data # None THEN 50 ELSE ConfidenceUnknown ] ]

\* Faulty variant: the speaker found last is kept from one call to the next
\* (a_mapping holds what the call before returned) and given to the words
\* for which no event is found.
MapWordsRemembering(words, speaker_events_data, chunk_start_time) ==
    [ i \in 1..Len(words) |->
        LET speaker_data == _find_active_speaker_at_time(
                                chunk_start_time + words[i].start, speaker_events_data)
        IN  Attribution(words[i], chunk_start_time,
                IF speaker_data = None /\ a_mapping # <<>>
                THEN a_mapping[Len(a_mapping)].speaker
                ELSE speaker_data) ]

_map_words_to_speakers(words, speaker_events_data, chunk_start_time) ==
    [ i \in 1..Len(words) |->
        Attribution(words[i], chunk_start_time,
            _find_active_speaker_at_time(chunk_start_time + words[i].start,
                                         speaker_events_data)) ]

(***************************************************************************)
(* _group_words_into_segments                                              *)
(***************************************************************************)
SpeakerId(word_data) ==
    IF word_data.speaker # None THEN word_data.speaker[1].member_id ELSE NULL

SpeakerName(word_data) ==
    IF word_data.speaker # None THEN word_data.speaker[1].member_name ELSE UnknownSpeaker

NewSegment(word_data) ==
    [ text |-> word_data.word,
      speaker_id |-> SpeakerId(word_data),
      speaker_name |-> SpeakerName(word_data),
      start_time |-> word_data.start_time,
      end_time |-> word_data.end_time,
      confidence |-> word_data.confidence,
      word_count |-> 1 ]

\* Faulty variants of the append branch: no space between the words; the
\* end time is not extended; the confidence follows the last word.
AppendWordNoSeparator(current_segment, word_data) ==
    [ current_segment EXCEPT
        !.text = @ \o word_data.word,
        !.end_time = word_data.end_time,
        !.word_count = @ + 1 ]

AppendWordKeepEnd(current_segment, word_data) ==
    [ current_segment EXCEPT
        !.text = @ \o <<" ">> \o word_data.word,
        !.word_count = @ + 1 ]

AppendWordTakeConfidence(current_segment, word_data) ==
    [ current_segment EXCEPT
        !.text = @ \o <<" ">> \o word_data.word,
        !.end_time = word_data.end_time,
        !.confidence = word_data.confidence,
        !.word_count = @ + 1 ]

AppendWord(current_segment, word_data) ==
    [ current_segment EXCEPT
        !.text = @ \o <<" ">> \o word_data.word,
        !.end_time = word_data.end_time,
        !.word_count = @ + 1 ]

\* Faulty variant: the current segment is continued when the speaker name matches.
ContinuesSegmentByName(current_segment, word_data) ==
    current_segment # None /\ current_segment[1].speaker_name = SpeakerName(word_data)

\* current_segment is None before the first word.
ContinuesSegment(current_segment, word_data) ==
    current_segment # None /\ current_segment[1].speaker_id = SpeakerId(word_data)

RECURSIVE GroupFrom(_, _, _, _)
GroupFrom(word_mapping, i, segments, current_segment) ==
    IF i > Len(word_mapping)
    THEN IF current_segment # None THEN Append(segments, current_segment[1]) ELSE segments
    ELSE IF ContinuesSegment(current_segment, word_mapping[i])
         THEN GroupFrom(word_mapping, i + 1, segments,
                        Some(AppendWord(current_segment[1], word_mapping[i])))
         ELSE GroupFrom(word_mapping, i + 1,
                        IF current_segment # None
                        THEN Append(segments, current_segment[1]) ELSE segments,
                        Some(NewSegment(word_mapping[i])))

\* Faulty variant: the segment being built is opened before the loop and
\* appended after it, so that an empty list gives one empty segment.
GroupWordsOpenedBeforeLoop(word_mapping) ==
    IF word_mapping = <<>>
    THEN << [ text |-> <<>>, speaker_id |-> NULL, speaker_name |-> UnknownSpeaker,
              start_time |-> 0, end_time |-> 0, confidence |-> ConfidenceUnknown,
              word_count |-> 0 ] >>
    ELSE GroupFrom(word_mapping, 1, <<>>, None)

_group_words_into_segments(word_mapping) ==
    IF word_mapping = <<>> THEN <<>> ELSE GroupFrom(word_mapping, 1, <<>>, None)

(***************************************************************************)
(* Phase 3 of process_speaker_mapping_optimized: one SpeakerTranscript     *)
(* row per segment                                                         *)
(***************************************************************************)
SpeakerTranscript(segment, meeting_id, audio_chunk_id, id) ==
    [ id |-> id,
      meeting_id |-> meeting_id,
      transcript_text |-> strip(segment.text),
      speaker_member_id |-> segment.speaker_id,
      speaker_name |-> segment.speaker_name,
      start_time |-> segment.start_time,
      end_time |-> segment.end_time,
      source_audio_chunk_id |-> audio_chunk_id,
      confidence_score |-> segment.confidence ]

\* Faulty variant: the rows are added from the last segment to the first.
SegmentRowsReversed(segments, meeting_id, audio_chunk_id, last_id) ==
    [ k \in 1..Len(segments) |->
        SpeakerTranscript(segments[Len(segments) + 1 - k], meeting_id,
                          audio_chunk_id, last_id + k) ]

\* The rows of one run; the ids are fresh (default=uuid.uuid4).
SegmentRows(segments, meeting_id, audio_chunk_id, last_id) ==
    [ k \in 1..Len(segments) |->
        SpeakerTranscript(segments[k], meeting_id, audio_chunk_id, last_id + k) ]

(***************************************************************************)
(* The pipeline: domains                                                   *)
(***************************************************************************)
MaxChunks == 1
Chunks == 1..MaxChunks
\* The speaker events posted while the chunks are processed.
MaxPosted == 1
Meetings == {"m1"}
NoTime == -1

\* What the transcription provider returns for a chunk: its word list.
ProviderWords ==
    { <<>>,
      <<Word(<<"a">>, 0, 1), Word(<<"b">>, 60, 62)>> }
\* What the bot posts to /events/speaker-started: Alice starts to speak 6 s
\* after the chunks begin.
PostedEvents == { Event("A", "Alice", 70) }
\* (chunk_audio, audio_started_at, audio_ended_at) of the chunk rows the
\* Celery queue names; both timing columns are nullable.
StoredChunks ==
    { <<"wav", 10, NoTime>>, <<"wav", 10, 110>> }
\* A Meeting row: non_voting_enabled, non_voting_call_frequency (0: none).
Meeting(enabled, frequency) ==
    [non_voting_enabled |-> enabled, non_voting_call_frequency |-> frequency]
\* The meeting of the chunks the Celery queue names.
StoredMeetings == { Meeting(TRUE, 1) }

\* The SpeakerTranscript rows a meeting has from the chunks aligned before:
\* none, or one segment of chunk 0 said by nobody known.
EarlierTranscripts ==
    { <<>>,
      <<[ id |-> 1, meeting_id |-> "m1", transcript_text |-> <<"b">>,
          speaker_member_id |-> NULL, speaker_name |-> UnknownSpeaker,
          start_time |-> 0, end_time |-> 5, source_audio_chunk_id |-> 0,
          confidence_score |-> ConfidenceUnknown ]>> }

\* Celery: @celery_app.task(bind=True, max_retries=3, ...)
max_retries == 3
\* settings.non_voting_call_frequency
non_voting_call_frequency == 20

AudioChunk(meeting_id, chunk_id, chunk_audio, started, ended) ==
    [ meeting_id |-> meeting_id,
      chunk_id |-> chunk_id,
      chunk_audio |-> chunk_audio,
      chunk_transcript |-> [format |-> "null", words |-> <<>>],
      transcription_status |-> "ready",
      audio_started_at |-> started,
      audio_ended_at |-> ended ]

SpeakerEvent(meeting_id, event) ==
    [ meeting_id |-> meeting_id,
      member_id |-> event.member_id,
      member_name |-> event.member_name,
      speaker_started_at |-> event.speaker_started_at ]

\* The locals of a runner; the fields not yet assigned hold these values.
IdleRun ==
    [ kind |-> "none", pc |-> "idle", retries |-> 0,
      audio_started_at |-> NoTime, result |-> <<>>,
      words |-> <<>>, speaker_events_data |-> <<>>, meeting_id |-> "",
      chunk_id |-> 0, segments |-> <<>>, broadcast_data_list |-> <<>>,
      error |-> "", db_sessions |-> 0 ]

Queued(kind) == [ IdleRun EXCEPT !.kind = kind, !.pc = "queued" ]

PipelineOff ==
    /\ audio_chunks = [c \in Chunks |-> None]
    /\ speaker_events = <<>>
    /\ speaker_transcripts = <<>>
    /\ meetings = [m \in Meetings |-> None]
    /\ run = [c \in Chunks |-> IdleRun]
    /\ mapper_calls = [c \in Chunks |-> 0]
    /\ broadcasts = <<>>
    /\ checkpoints = <<>>

LookupOff == l_time = 0 /\ l_events = <<>> /\ l_result = None /\ l_pc = "off"

AlignOff ==
    /\ a_words = <<>> /\ a_events = <<>> /\ a_anchor = 0
    /\ a_mapping = <<>> /\ a_segments = <<>> /\ a_rows = <<>> /\ a_pc = "off"

(***************************************************************************)
(* Timeline lookups: _find_active_speaker_at_time on any instant and any   *)
(* ordered event list                                                      *)
(***************************************************************************)
InitLookup ==
    /\ l_time \in LookupInstants
    /\ l_events \in { e \in SeqsUpTo(LookupEventChoices, MaxEvents) : IsOrdered(e) }
    /\ l_result = None
    /\ l_pc = "start"
    /\ AlignOff
    /\ PipelineOff

FindActiveSpeaker ==
    /\ l_pc = "start"
    /\ l_result' = _find_active_speaker_at_time(l_time, l_events)
    /\ l_pc' = "returned"
    /\ UNCHANGED <<l_time, l_events, align_vars, pipeline_vars>>

NextLookup == FindActiveSpeaker

SpecLookup == InitLookup /\ [][NextLookup]_vars

(***************************************************************************)
(* Alignment runs: resolver, grouper and row construction on any chunk     *)
(***************************************************************************)
InitAlign ==
    /\ a_words \in SeqsUpTo(WordChoices, MaxWords)
    /\ a_events \in { e \in SeqsUpTo(AlignEventChoices, MaxEvents) : IsOrdered(e) }
    /\ a_anchor \in AlignAnchors
    /\ a_mapping = <<>> /\ a_segments = <<>> /\ a_rows = <<>>
    /\ a_pc = "start"
    /\ LookupOff
    /\ PipelineOff

MapWords ==
    /\ a_pc = "start"
    /\ a_mapping' = _map_words_to_speakers(a_words, a_events, a_anchor)
    /\ a_pc' = "mapped"
    /\ UNCHANGED <<a_words, a_events, a_anchor, a_segments, a_rows>>
    /\ UNCHANGED <<lookup_vars, pipeline_vars>>

GroupWords ==
    /\ a_pc = "mapped"
    /\ a_segments' = _group_words_into_segments(a_mapping)
    /\ a_pc' = "grouped"
    /\ UNCHANGED <<a_words, a_events, a_anchor, a_mapping, a_rows>>
    /\ UNCHANGED <<lookup_vars, pipeline_vars>>

PersistSegments ==
    /\ a_pc = "grouped"
    /\ a_rows' = SegmentRows(a_segments, "m1", 1, 0)
    /\ a_pc' = "persisted"
    /\ UNCHANGED <<a_words, a_events, a_anchor, a_mapping, a_segments>>
    /\ UNCHANGED <<lookup_vars, pipeline_vars>>

\* The resolver and the grouper are run a second time on the same words,
\* events and anchor.
MapAndGroupAgain ==
    /\ a_pc = "persisted"
    /\ a_mapping' = _map_words_to_speakers(a_words, a_events, a_anchor)
    /\ a_segments' = _group_words_into_segments(a_mapping')
    /\ a_pc' = "again"
    /\ UNCHANGED <<a_words, a_events, a_anchor, a_rows>>
    /\ UNCHANGED <<lookup_vars, pipeline_vars>>

NextAlign == MapWords \/ GroupWords \/ PersistSegments \/ MapAndGroupAgain

SpecAlign == InitAlign /\ [][NextAlign]_vars

(***************************************************************************)
(* The pipeline: upload, transcription task, orchestrator                  *)
(***************************************************************************)
Row(c) == audio_chunks[c][1]

SetRun(c, r) == run' = [run EXCEPT ![c] = r]
\* A runner that returned or raised keeps none of its locals; the sessions
\* it did not close stay open.
Ended(c, pc, error) ==
    [ IdleRun EXCEPT !.kind = run[c].kind, !.retries = run[c].retries,
                     !.db_sessions = run[c].db_sessions, !.pc = pc, !.error = error ]

Goto(c, pc) == SetRun(c, Ended(c, pc, ""))

\* db = SessionLocal() ... finally: db.close()
SessionLocal(db_sessions) == db_sessions + 1

\* Faulty variant: the session is left to the garbage collector.
closeNever(db_sessions) == db_sessions

close(db_sessions) == db_sessions - 1

\* The runner r with one more session open, and with one closed.
Opened(r) == [ r EXCEPT !.db_sessions = SessionLocal(@) ]

\* Faulty variant: db.close() is the last statement of the try block, not a
\* finally: an exception skips it.
ClosedUnlessRaised(r) ==
    IF r.pc \in {"raised", "m_raised"} THEN r
    ELSE [ r EXCEPT !.db_sessions = close(@) ]

Closed(r) == [ r EXCEPT !.db_sessions = close(@) ]

\* What a phase that works in a session of its own leaves of the runner r.
InSession(r) == Closed(Opened(r))

\* The orchestrator ends: it returns, or an exception leaves it.
MapperReturned(c) == Ended(c, "m_returned", "")

\* Faulty variant: the exception is logged and the orchestrator returns.
MapperLogged(c, error) == Ended(c, "m_returned", "")

MapperRaised(c, error) == Ended(c, "m_raised", error)

\* POST /audio/chunk: a new row, status ready, no audio timing, and a
\* background task transcribe_chunk_async for it.
save_audio_chunk(c) ==
    /\ audio_chunks[c] = None
    /\ run[c].pc = "idle"
    /\ \E meeting_id \in Meetings, chunk_audio \in {"", "wav"} :
         audio_chunks' = [audio_chunks EXCEPT
             ![c] = Some(AudioChunk(meeting_id, c, chunk_audio, NoTime, NoTime))]
    /\ SetRun(c, Queued("background"))
    /\ UNCHANGED <<speaker_events, speaker_transcripts, meetings, mapper_calls,
                   broadcasts, checkpoints, lookup_vars, align_vars>>

\* POST /events/speaker-started: one more SpeakerEvent row.
save_speaker_started_event(meeting_id) ==
    /\ Len(speaker_events) < MaxPosted
    /\ \E event \in PostedEvents :
         speaker_events' = Append(speaker_events, SpeakerEvent(meeting_id, event))
    /\ UNCHANGED <<audio_chunks, speaker_transcripts, meetings, run, mapper_calls,
                   broadcasts, checkpoints, lookup_vars, align_vars>>

\* transcribe_chunk_async, phase 1: read the chunk, mark it processing.
transcribe_phase1(c) ==
    /\ run[c].pc = "queued"
    /\ \/ \* the session's query or commit fails
          /\ SetRun(c, InSession(Ended(c, "raised", "")))
          /\ UNCHANGED audio_chunks
       \/ /\ audio_chunks[c] = None \/ Row(c).chunk_audio = ""
          /\ SetRun(c, InSession(Ended(c, "returned", "")))
          /\ UNCHANGED audio_chunks
       \/ /\ audio_chunks[c] # None /\ Row(c).chunk_audio # ""
          /\ audio_chunks' = [audio_chunks EXCEPT
                ![c] = Some([Row(c) EXCEPT !.transcription_status = "processing"])]
          /\ SetRun(c, InSession([run[c] EXCEPT
                 !.pc = "t_phase2",
                 !.audio_started_at = Row(c).audio_started_at]))
    /\ UNCHANGED <<speaker_events, speaker_transcripts, meetings, mapper_calls,
                   broadcasts, checkpoints, lookup_vars, align_vars>>

\* transcribe_chunk_async, phase 2: the provider call, with no session
\* open; a failed call marks the chunk failed, in a session of its own, and
\* returns.
transcribe_phase2(c) ==
    /\ run[c].pc = "t_phase2"
    /\ \/ \E words \in ProviderWords :
            /\ SetRun(c, [run[c] EXCEPT !.pc = "t_phase3", !.result = words])
            /\ UNCHANGED audio_chunks
       \/ \* the call fails and the chunk is marked failed
          /\ audio_chunks' = [audio_chunks EXCEPT
                ![c] = Some([Row(c) EXCEPT !.transcription_status = "failed"])]
          /\ SetRun(c, InSession(Ended(c, "returned", "")))
       \/ \* the call fails and so does the session that marks the chunk
          /\ SetRun(c, InSession(Ended(c, "raised", "")))
          /\ UNCHANGED audio_chunks
    /\ UNCHANGED <<speaker_events, speaker_transcripts, meetings, mapper_calls,
                   broadcasts, checkpoints, lookup_vars, align_vars>>

\* Faulty variant: the failure of the write is logged and phase 4 follows.
transcribe_phase3_logs_failure(c) ==
    /\ run[c].pc = "t_phase3"
    /\ \/ /\ SetRun(c, InSession([run[c] EXCEPT !.pc = "t_phase4", !.result = <<>>]))
          /\ UNCHANGED audio_chunks
       \/ /\ audio_chunks' = [audio_chunks EXCEPT
                ![c] = Some([Row(c) EXCEPT
                    !.chunk_transcript = [format |-> "json", words |-> run[c].result],
                    !.transcription_status = "completed"])]
          /\ SetRun(c, InSession([run[c] EXCEPT !.pc = "t_phase4", !.result = <<>>]))
    /\ UNCHANGED <<speaker_events, speaker_transcripts, meetings, mapper_calls,
                   broadcasts, checkpoints, lookup_vars, align_vars>>

\* transcribe_chunk_async, phase 3: store the transcript as JSON, completed.
transcribe_phase3(c) ==
    /\ run[c].pc = "t_phase3"
    /\ \/ /\ SetRun(c, InSession(Ended(c, "raised", "")))
          /\ UNCHANGED audio_chunks
       \/ /\ audio_chunks' = [audio_chunks EXCEPT
                ![c] = Some([Row(c) EXCEPT
                    !.chunk_transcript = [format |-> "json", words |-> run[c].result],
                    !.transcription_status = "completed"])]
          /\ SetRun(c, InSession([run[c] EXCEPT !.pc = "t_phase4", !.result = <<>>]))
    /\ UNCHANGED <<speaker_events, speaker_transcripts, meetings, mapper_calls,
                   broadcasts, checkpoints, lookup_vars, align_vars>>

\* Faulty variant: the JSONDecodeError of json.loads is not caught.
ParseErrorUncaught(transcript) ==
    IF transcript.format = "malformed" THEN "JSONDecodeError" ELSE ""

\* The exception that leaves _parse_transcript_json: none, the
\* JSONDecodeError of json.loads is caught and logged.
ParseError(transcript) == ""

\* _parse_transcript_json: the dict of a JSON transcript, None for a null,
\* plain-text or malformed one.
_parse_transcript_json(transcript) ==
    IF transcript.format = "json" THEN Some(transcript) ELSE None

\* The rows of SpeakerEvent of a meeting ORDER BY speaker_started_at: every
\* ascending arrangement (the order of equal timestamps is the datastore's).
EventsOf(meeting_id) ==
    SelectSeq(speaker_events, LAMBDA e : e.meeting_id = meeting_id)

OrderedEventsOf(meeting_id) ==
    LET rows == EventsOf(meeting_id)
        n == Len(rows)
    IN  { events \in
            { [ i \in 1..n |-> Event(rows[p[i]].member_id, rows[p[i]].member_name,
                                     rows[p[i]].speaker_started_at) ] :
              p \in { q \in [1..n -> 1..n] : \A i, j \in 1..n : i # j => q[i] # q[j] } } :
          IsOrdered(events) }

\* transcribe_chunk_async, phase 4: when the chunk had an audio start the
\* orchestrator is invoked for it, otherwise the mapping is skipped.
transcribe_phase4(c) ==
    /\ run[c].pc = "t_phase4"
    /\ IF run[c].audio_started_at = NoTime
       THEN /\ Goto(c, "returned")
            /\ UNCHANGED mapper_calls
       ELSE /\ SetRun(c, [run[c] EXCEPT !.pc = "m_phase1"])
            /\ mapper_calls' = [mapper_calls EXCEPT ![c] = @ + 1]
    /\ UNCHANGED <<store_vars, broadcasts, checkpoints, lookup_vars, align_vars>>

\* Faulty variant: an exception of the orchestrator leaves transcribe_chunk_async.
MappingErrorPropagates == "raised"

\* transcribe_chunk_async catches and logs what the orchestrator raises.
MappingErrorOutcome == "returned"

\* transcribe_chunk_async, phase 4, after the orchestrator: log and return.
transcribe_phase4_return(c) ==
    /\ run[c].kind \in {"background", "celery"}
    /\ \/ run[c].pc = "m_returned" /\ Goto(c, "returned")
       \/ run[c].pc = "m_raised" /\ Goto(c, MappingErrorOutcome)
    /\ UNCHANGED <<store_vars, mapper_calls, broadcasts, checkpoints,
                   lookup_vars, align_vars>>

\* Faulty variant: the end of the audio is not asked for.
MissingDataIgnoresEnd(c) ==
    IF audio_chunks[c] = None THEN TRUE
    ELSE IF _parse_transcript_json(Row(c).chunk_transcript) = None THEN TRUE
    ELSE IF _parse_transcript_json(Row(c).chunk_transcript)[1].words = <<>> THEN TRUE
    ELSE Row(c).audio_started_at = NoTime

\* The early returns of phase 1: no row, no word-level data, no audio timing.
MissingData(c) ==
    IF audio_chunks[c] = None THEN TRUE
    ELSE IF _parse_transcript_json(Row(c).chunk_transcript) = None THEN TRUE
    ELSE IF _parse_transcript_json(Row(c).chunk_transcript)[1].words = <<>> THEN TRUE
    ELSE Row(c).audio_started_at = NoTime \/ Row(c).audio_ended_at = NoTime

\* Orchestrator, phase 1: read the chunk and the speaker events of its
\* meeting, copy them, close the session.
speaker_mapping_phase1(c) ==
    /\ run[c].pc = "m_phase1"
    /\ \/ \* a query of the session fails
          SetRun(c, InSession(MapperRaised(c, "DatastoreError")))
       \/ \* the parsing of the transcript raises
          /\ audio_chunks[c] # None
          /\ ParseError(Row(c).chunk_transcript) # ""
          /\ SetRun(c, InSession(MapperRaised(c, ParseError(Row(c).chunk_transcript))))
       \/ /\ MissingData(c)
          /\ SetRun(c, InSession(MapperReturned(c)))
       \/ /\ ~MissingData(c)
          /\ \E events \in OrderedEventsOf(Row(c).meeting_id) :
               SetRun(c, InSession([run[c] EXCEPT
                   !.pc = "m_phase2",
                   !.words = _parse_transcript_json(Row(c).chunk_transcript)[1].words,
                   !.audio_started_at = Row(c).audio_started_at,
                   !.meeting_id = Row(c).meeting_id,
                   !.chunk_id = Row(c).chunk_id,
                   !.speaker_events_data = events]))
    /\ UNCHANGED <<store_vars, mapper_calls, broadcasts, checkpoints,
                   lookup_vars, align_vars>>

\* Faulty variant: the events are the rows of the table when they are used.
LiveEvents(c) == CHOOSE events \in OrderedEventsOf(run[c].meeting_id) : TRUE

\* The events the resolver is given: the copy made in phase 1.
CopiedEvents(c) == run[c].speaker_events_data

\* timedelta(seconds=None): a word whose 'start' or 'end' is null.
HasNullTime(words) ==
    \E i \in 1..Len(words) : words[i].start = NoTime \/ words[i].end = NoTime

\* Orchestrator, phase 2: resolver and grouper, on the copied data.
speaker_mapping_phase2(c) ==
    /\ run[c].pc = "m_phase2"
    /\ IF HasNullTime(run[c].words)
       THEN SetRun(c, MapperRaised(c, "TypeError"))
       ELSE LET word_speaker_mapping ==
                    _map_words_to_speakers(run[c].words, CopiedEvents(c),
                                           run[c].audio_started_at)
                segments == _group_words_into_segments(word_speaker_mapping)
            IN  IF segments = <<>>
                THEN SetRun(c, MapperReturned(c))
                ELSE SetRun(c, [run[c] EXCEPT !.pc = "m_phase3", !.segments = segments])
    /\ UNCHANGED <<store_vars, mapper_calls, broadcasts, checkpoints,
                   lookup_vars, align_vars>>

\* Faulty variant: a segment that continues the speaker of the meeting's last row
\* is merged into that row.
InsertRowsMerging(table, rows) ==
    IF /\ table # <<>> /\ rows # <<>>
       /\ table[Len(table)].meeting_id = rows[1].meeting_id
       /\ table[Len(table)].speaker_member_id = rows[1].speaker_member_id
    THEN [table EXCEPT ![Len(table)] =
             [@ EXCEPT !.transcript_text = @ \o <<" ">> \o rows[1].transcript_text,
                       !.end_time = rows[1].end_time]] \o Tail(rows)
    ELSE table \o rows

\* Faulty variant: db.add(...) after the loop, so that only the last row is added.
InsertRowsLastOnly(table, rows) == table \o <<rows[Len(rows)]>>

\* Faulty variant: the rows the meeting had are deleted before the new ones
\* are added.
InsertRowsReplacingMeeting(table, rows) ==
    SelectSeq(table, LAMBDA r : r.meeting_id # rows[1].meeting_id) \o rows

\* db.add(...) of every row, then one commit.
InsertRows(table, rows) == table \o rows

\* Faulty variant: the rows are queried without the filter on the chunk.
RowsOfAnyChunk(table, audio_chunk_id) == table

\* query(SpeakerTranscript).filter(source_audio_chunk_id == audio_chunk_id).all()
RowsOfChunk(table, audio_chunk_id) ==
    SelectSeq(table, LAMBDA r : r.source_audio_chunk_id = audio_chunk_id)

RowIds(rows) == [ k \in 1..Len(rows) |-> rows[k].id ]

\* Orchestrator, phase 3, to the commit: open a session, add a row per
\* segment, commit them at once.
speaker_mapping_phase3(c) ==
    /\ run[c].pc = "m_phase3"
    /\ LET rows == SegmentRows(run[c].segments, run[c].meeting_id, c,
                               Len(speaker_transcripts))
       IN  \/ \* the commit fails: nothing is inserted
              /\ SetRun(c, InSession(MapperRaised(c, "DatastoreError")))
              /\ UNCHANGED speaker_transcripts
           \/ /\ speaker_transcripts' = InsertRows(speaker_transcripts, rows)
              /\ SetRun(c, Opened([run[c] EXCEPT !.pc = "m_phase3_saved"]))
    /\ UNCHANGED <<audio_chunks, speaker_events, meetings, mapper_calls, broadcasts,
                   checkpoints, lookup_vars, align_vars>>

\* Orchestrator, phase 3, after the commit: query the rows of the chunk
\* back for the broadcast, close the session.
speaker_mapping_phase3_query(c) ==
    /\ run[c].pc = "m_phase3_saved"
    /\ \/ \* the query fails
          SetRun(c, Closed(MapperRaised(c, "DatastoreError")))
       \/ SetRun(c, Closed([run[c] EXCEPT
               !.pc = "m_phase4",
               !.broadcast_data_list = RowIds(RowsOfChunk(speaker_transcripts, c))]))
    /\ UNCHANGED <<store_vars, mapper_calls, broadcasts, checkpoints,
                   lookup_vars, align_vars>>

\* Orchestrator, phase 4: hand the rows to the broadcast channel one by one;
\* an exception ends the loop and is logged.  (The push of each row to the
\* external transcript service changes nothing kept here.)
speaker_mapping_phase4(c) ==
    /\ run[c].pc = "m_phase4"
    /\ \E n \in 0..Len(run[c].broadcast_data_list) :
         broadcasts' = broadcasts \o SubSeq(run[c].broadcast_data_list, 1, n)
    /\ SetRun(c, [run[c] EXCEPT !.pc = "m_phase5"])
    /\ UNCHANGED <<store_vars, mapper_calls, checkpoints, lookup_vars, align_vars>>

\* Faulty variant: the global setting is used for every meeting.
CallFrequencyGlobal(meeting_id) == non_voting_call_frequency

\* meeting.non_voting_call_frequency or settings.non_voting_call_frequency
CallFrequency(meeting_id) ==
    IF meetings[meeting_id] # None /\ meetings[meeting_id][1].non_voting_call_frequency # 0
    THEN meetings[meeting_id][1].non_voting_call_frequency
    ELSE non_voting_call_frequency

NonVotingEnabled(meeting_id) ==
    meetings[meeting_id] # None /\ meetings[meeting_id][1].non_voting_enabled

\* meeting_non_voting_enabled and chunk_id % meeting_call_frequency == 0
CheckpointDue(meeting_id, chunk_id) ==
    NonVotingEnabled(meeting_id) /\ chunk_id % CallFrequency(meeting_id) = 0

\* Orchestrator, phase 5: read the meeting and queue the non-voting
\* checkpoint when it is due; nothing catches what the query of the meeting
\* or the queueing of the task raises.
speaker_mapping_phase5(c) ==
    /\ run[c].pc = "m_phase5"
    /\ \/ \* the query of the meeting fails
          /\ SetRun(c, InSession(MapperRaised(c, "DatastoreError")))
          /\ UNCHANGED checkpoints
       \/ \* trigger_checkpoint.delay fails
          /\ CheckpointDue(run[c].meeting_id, run[c].chunk_id)
          /\ SetRun(c, InSession(MapperRaised(c, "QueueError")))
          /\ UNCHANGED checkpoints
       \/ /\ checkpoints' =
               IF CheckpointDue(run[c].meeting_id, run[c].chunk_id)
               THEN Append(checkpoints, <<run[c].meeting_id, run[c].chunk_id>>)
               ELSE checkpoints
          /\ SetRun(c, InSession(MapperReturned(c)))
    /\ UNCHANGED <<store_vars, mapper_calls, broadcasts, lookup_vars, align_vars>>

\* The Celery task transcribe_chunk, when transcribe_chunk_async raised:
\* retry, or mark the chunk failed once the retries are used up.  The mark
\* is not made when its session fails (the failure is logged), when the row
\* is missing, or when self.retry(exc=e) raises e again and not
\* MaxRetriesExceededError.
transcribe_chunk_retry(c) ==
    /\ run[c].kind = "celery"
    /\ run[c].pc = "raised"
    /\ IF run[c].retries < max_retries
       THEN /\ SetRun(c, [Queued("celery") EXCEPT !.retries = run[c].retries + 1])
            /\ UNCHANGED audio_chunks
       ELSE /\ Goto(c, "exhausted")
            /\ \/ audio_chunks' = [audio_chunks EXCEPT
                     ![c] = IF audio_chunks[c] = None THEN None
                            ELSE Some([Row(c) EXCEPT !.transcription_status = "failed"])]
               \/ UNCHANGED audio_chunks
    /\ UNCHANGED <<speaker_events, speaker_transcripts, meetings, mapper_calls,
                   broadcasts, checkpoints, lookup_vars, align_vars>>

\* The datastore holds the meetings, the rows of the chunks the Celery queue
\* names (one message per chunk, queued by the producer of those rows; the
\* other chunks arrive through POST /audio/chunk) and the transcript rows
\* of earlier chunks.
Init ==
    /\ audio_chunks \in
         [ Chunks -> {None} \cup
             { Some(AudioChunk(m, n, t[1], t[2], t[3])) :
                 m \in Meetings, n \in Chunks, t \in StoredChunks } ]
    /\ \A c \in Chunks : audio_chunks[c] # None => Row(c).chunk_id = c
    /\ run = [c \in Chunks |-> IF audio_chunks[c] = None THEN IdleRun ELSE Queued("celery")]
    /\ meetings \in [Meetings -> {None} \cup { Some(r) : r \in StoredMeetings }]
    /\ speaker_events = <<>>
    /\ speaker_transcripts \in EarlierTranscripts
    /\ mapper_calls = [c \in Chunks |-> 0]
    /\ broadcasts = <<>>
    /\ checkpoints = <<>>
    /\ LookupOff
    /\ AlignOff

Next ==
    \/ \E meeting_id \in Meetings : save_speaker_started_event(meeting_id)
    \/ \E c \in Chunks :
         \/ save_audio_chunk(c)
         \/ transcribe_phase1(c)
         \/ transcribe_phase2(c)
         \/ transcribe_phase3(c)
         \/ transcribe_phase4(c)
         \/ transcribe_phase4_return(c)
         \/ speaker_mapping_phase1(c)
         \/ speaker_mapping_phase2(c)
         \/ speaker_mapping_phase3(c)
         \/ speaker_mapping_phase3_query(c)
         \/ speaker_mapping_phase4(c)
         \/ speaker_mapping_phase5(c)
         \/ transcribe_chunk_retry(c)

Spec == Init /\ [][Next]_vars

(***************************************************************************)
(* The orchestrator on its own: process_speaker_mapping_optimized invoked  *)
(* for chunks of any content, for two meetings, while speaker events are   *)
(* posted                                                                  *)
(***************************************************************************)
\* Two invocations, for two chunks, run concurrently.
MapperChunks == {1, 2}
MapperMeetings == {"m1", "m2"}

\* The chunk_transcript column: a JSON document with its word list (a word
\* may lack a time), a legacy plain text, a text that starts like JSON and
\* is none, or null.
StoredTranscripts ==
    [ words |-> [format |-> "json",
                 words |-> <<Word(<<"a">>, 0, 1), Word(<<"b">>, 60, 62)>>],
      no_words |-> [format |-> "json", words |-> <<>>],
      null_time |-> [format |-> "json", words |-> <<Word(<<"a">>, NoTime, 1)>>],
      text |-> [format |-> "text", words |-> <<>>],
      malformed |-> [format |-> "malformed",
                     words |-> <<Word(<<"a">>, 0, 1), Word(<<"b">>, 60, 62)>>],
      null |-> [format |-> "null", words |-> <<>>] ]

CompletedChunk(meeting_id, chunk_id, transcript, started, ended) ==
    [ AudioChunk(meeting_id, chunk_id, "wav", started, ended) EXCEPT
        !.chunk_transcript = transcript, !.transcription_status = "completed" ]

\* The rows the orchestrator is invoked for; chunk 30 of m1 starts two
\* minutes after the others.
MapperRows ==
    { CompletedChunk("m1", 2, StoredTranscripts.words, 10, 110),
      CompletedChunk("m1", 30, StoredTranscripts.words, 1210, 1310),
      CompletedChunk("m1", 20, StoredTranscripts.words, 10, 110),
      CompletedChunk("m2", 3, StoredTranscripts.words, 10, 110),
      CompletedChunk("m1", 2, StoredTranscripts.words, 10, NoTime),
      CompletedChunk("m1", 2, StoredTranscripts.words, NoTime, 110),
      CompletedChunk("m1", 2, StoredTranscripts.no_words, 10, 110),
      CompletedChunk("m1", 2, StoredTranscripts.null_time, 10, 110),
      CompletedChunk("m1", 4, StoredTranscripts.text, 10, 110),
      CompletedChunk("m1", 2, StoredTranscripts.malformed, 10, 110),
      CompletedChunk("m1", 2, StoredTranscripts.null, 10, 110) }

\* The meetings table: a meeting may be missing, have the feature off, or
\* have it on with a call frequency of its own or none (0).
MapperMeetingTables ==
    { [m \in MapperMeetings |-> None],
      [m1 |-> Some(Meeting(FALSE, 2)), m2 |-> Some(Meeting(TRUE, 3))],
      [m1 |-> Some(Meeting(TRUE, 0)), m2 |-> Some(Meeting(TRUE, 3))],
      [m1 |-> Some(Meeting(TRUE, 2)), m2 |-> Some(Meeting(TRUE, 3))],
      [m1 |-> Some(Meeting(TRUE, 3)), m2 |-> None] }

InitMapper ==
    /\ audio_chunks \in [MapperChunks -> {None} \cup { Some(r) : r \in MapperRows }]
    \* chunk_id is the sequential chunk number per meeting
    /\ \A c, d \in MapperChunks :
         (c # d /\ audio_chunks[c] # None /\ audio_chunks[d] # None) =>
            <<Row(c).meeting_id, Row(c).chunk_id>> # <<Row(d).meeting_id, Row(d).chunk_id>>
    /\ meetings \in MapperMeetingTables
    /\ speaker_events = <<>>
    /\ speaker_transcripts = <<>>
    /\ run = [c \in MapperChunks |-> IdleRun]
    /\ mapper_calls = [c \in MapperChunks |-> 0]
    /\ broadcasts = <<>>
    /\ checkpoints = <<>>
    /\ LookupOff
    /\ AlignOff

\* await process_speaker_mapping_optimized(audio_chunk_id)
process_speaker_mapping_optimized(c) ==
    /\ run[c].pc = "idle"
    /\ SetRun(c, [IdleRun EXCEPT !.kind = "direct", !.pc = "m_phase1"])
    /\ mapper_calls' = [mapper_calls EXCEPT ![c] = @ + 1]
    /\ UNCHANGED <<store_vars, broadcasts, checkpoints, lookup_vars, align_vars>>

NextMapper ==
    \/ \E meeting_id \in MapperMeetings : save_speaker_started_event(meeting_id)
    \/ \E c \in MapperChunks :
         \/ process_speaker_mapping_optimized(c)
         \/ speaker_mapping_phase1(c)
         \/ speaker_mapping_phase2(c)
         \/ speaker_mapping_phase3(c)
         \/ speaker_mapping_phase3_query(c)
         \/ speaker_mapping_phase4(c)
         \/ speaker_mapping_phase5(c)

SpecMapper == InitMapper /\ [][NextMapper]_vars

(***************************************************************************)
(* Definitions the properties are stated with                              *)
(***************************************************************************)
MaxOf(S) == CHOOSE i \in S : \A j \in S : j <= i
MinOf(S) == CHOOSE i \in S : \A j \in S : i <= j

\* The speaker timeline as the specification words it: the last event that
\* started at or before the instant, else the earliest event that starts
\* within the 5 seconds (50 ticks) after it, else nobody.
StartedBy(instant, events) ==
    { i \in 1..Len(events) : events[i].speaker_started_at <= instant }

InLookAhead(instant, events) ==
    { i \in 1..Len(events) :
        /\ events[i].speaker_started_at > instant
        /\ events[i].speaker_started_at <= instant + 50 }

TimelineLookup(instant, events) ==
    IF StartedBy(instant, events) # {}
    THEN Some(events[MaxOf(StartedBy(instant, events))])
    ELSE IF InLookAhead(instant, events) # {}
         THEN Some(events[MinOf(InLookAhead(instant, events))])
         ELSE None

IdentityOf(speaker) == IF speaker = None THEN NULL ELSE speaker[1].member_id

\* A word text that str.split() gives back as it is: not empty, no whitespace.
IsToken(text) == text # <<>> /\ \A i \in 1..Len(text) : ~IsSpace(text[i])

\* The words' relative start times never decrease.
WordsInTimeOrder(words) ==
    \A i \in 1..Len(words) - 1 : words[i].start <= words[i + 1].start

WordTextsOf(words) == [ i \in 1..Len(words) |-> words[i].word ]

RECURSIVE TokensOf(_)
TokensOf(texts) ==
    IF texts = <<>> THEN <<>> ELSE split(Head(texts)) \o TokensOf(Tail(texts))

SegmentTexts(segments) == [ k \in 1..Len(segments) |-> segments[k].text ]
RowTexts(rows) == [ k \in 1..Len(rows) |-> rows[k].transcript_text ]

RECURSIVE JoinWords(_)
JoinWords(texts) ==
    IF Len(texts) = 1 THEN texts[1]
    ELSE JoinWords(SubSeq(texts, 1, Len(texts) - 1)) \o <<" ">> \o texts[Len(texts)]

\* The position in the attribution list of the first word of segment k.
RECURSIVE FirstWordOf(_, _)
FirstWordOf(segments, k) ==
    IF k = 1 THEN 1 ELSE FirstWordOf(segments, k - 1) + segments[k - 1].word_count

WordsOfSegment(segments, k) ==
    FirstWordOf(segments, k) .. (FirstWordOf(segments, k) + segments[k].word_count - 1)

Grouped == a_pc \in {"grouped", "persisted"}
Mapped == a_pc \in {"mapped", "grouped", "persisted"}
AbsoluteStart(i) == a_anchor + a_words[i].start
AbsoluteEnd(i) == a_anchor + a_words[i].end
Resolved(i) == TimelineLookup(AbsoluteStart(i), a_events)

(***************************************************************************)
(* Properties                                                              *)
(***************************************************************************)

\* C1 (as stated): for any chunk, splitting the texts of the produced
\* segments, and of the persisted rows, on whitespace yields exactly the
\* chunk's words in their original order.
C1_CompletenessAnyWords ==
    /\ Grouped => TokensOf(SegmentTexts(a_segments)) = WordTextsOf(a_words)
    /\ a_pc = "persisted" => TokensOf(RowTexts(a_rows)) = WordTextsOf(a_words)

\* C1 (amended): for any chunk whose words each have a non-empty text
\* without whitespace, splitting the texts of the produced segments, and of
\* the persisted rows, on whitespace yields exactly the chunk's words in
\* their original order.
C1_Completeness ==
    (\A i \in 1..Len(a_words) : IsToken(a_words[i].word)) => C1_CompletenessAnyWords

C1_Witness ==
    /\ a_pc = "persisted"
    /\ Len(a_words) = 3
    /\ \A i \in 1..Len(a_words) : IsToken(a_words[i].word)
    /\ Len(a_rows) = 2
    /\ TokensOf(RowTexts(a_rows)) = WordTextsOf(a_words)

\* C2: when some event started at or before the instant, the lookup returns
\* the last such event of the ordered list; an event that starts exactly at
\* the instant is active at it, and no later event is returned.
C2_LastStartedEvent ==
    (l_pc = "returned" /\ StartedBy(l_time, l_events) # {}) =>
        /\ l_result = Some(l_events[MaxOf(StartedBy(l_time, l_events))])
        /\ l_result[1].speaker_started_at <= l_time
        /\ (\E i \in 1..Len(l_events) : l_events[i].speaker_started_at = l_time)
              => l_result[1].speaker_started_at = l_time

C2_Witness ==
    /\ l_pc = "returned"
    /\ Len(l_events) = 2
    /\ l_events[1].speaker_started_at < l_time
    /\ l_events[2].speaker_started_at = l_time
    /\ l_events[1].member_id # l_events[2].member_id
    /\ l_result = Some(l_events[2])

\* C3: when no event started at or before the instant, the lookup returns
\* the earliest event that starts within the 5 seconds (50 ticks) after the
\* instant, and nobody when there is none; an event further away than that
\* is never returned.
C3_LookAheadBound ==
    l_pc = "returned" =>
        /\ l_result # None => l_result[1].speaker_started_at <= l_time + 50
        /\ StartedBy(l_time, l_events) = {} =>
             IF InLookAhead(l_time, l_events) = {}
             THEN l_result = None
             ELSE l_result = Some(l_events[MinOf(InLookAhead(l_time, l_events))])

C3_Witness ==
    /\ l_pc = "returned"
    /\ Len(l_events) = 2
    /\ l_events[1].speaker_started_at = l_time + 49
    /\ l_events[2].speaker_started_at = l_time + 50
    /\ l_events[1].member_id # l_events[2].member_id
    /\ l_result = Some(l_events[1])

\* C4: the segments are the maximal runs of same-identity attributions:
\* every word of a segment has the segment's speaker identity (null being
\* the identity of unknown), the segments cover the attributions in order,
\* and two adjacent segments have different identities.
C4_MaximalRuns ==
    Grouped =>
        /\ Len(a_mapping) = 0 => Len(a_segments) = 0
        /\ Len(a_mapping) > 0 =>
             FirstWordOf(a_segments, Len(a_segments))
                 + a_segments[Len(a_segments)].word_count - 1 = Len(a_mapping)
        /\ \A k \in 1..Len(a_segments) :
             /\ a_segments[k].word_count >= 1
             /\ \A i \in WordsOfSegment(a_segments, k) :
                  IdentityOf(a_mapping[i].speaker) = a_segments[k].speaker_id
        /\ \A k \in 1..Len(a_segments) - 1 :
             a_segments[k].speaker_id # a_segments[k + 1].speaker_id

C4_Witness ==
    /\ Grouped
    /\ Len(a_mapping) = 3
    /\ a_mapping[1].speaker = None
    /\ a_mapping[2].speaker = None
    /\ a_mapping[3].speaker # None
    /\ IdentityOf(a_mapping[3].speaker) # NULL
    /\ Len(a_segments) = 2
    /\ a_segments[1].word_count = 2

\* C5: an attribution has confidence 0.95 exactly when a speaker event was
\* found for its word and 0.30 exactly when none was; attributions and
\* segments carry no other confidence.
C5_ConfidencePolicy ==
    /\ Mapped =>
         \A i \in 1..Len(a_mapping) :
            /\ a_mapping[i].confidence = 95 <=> Resolved(i) # None
            /\ a_mapping[i].confidence = 30 <=> Resolved(i) = None
    /\ Grouped => \A k \in 1..Len(a_segments) : a_segments[k].confidence \in {95, 30}

C5_Witness ==
    /\ Grouped
    /\ \E i, j \in 1..Len(a_mapping) :
         /\ Resolved(i) # None /\ a_mapping[i].confidence = 95
         /\ Resolved(j) = None /\ a_mapping[j].confidence = 30

\* C6: one attribution per word, in the order of the words, with
\* absolute_start = anchor + relative start, absolute_end = anchor +
\* relative end, and the speaker the timeline gives at absolute_start.
C6_OneAttributionPerWord ==
    Mapped =>
        /\ Len(a_mapping) = Len(a_words)
        /\ \A i \in 1..Len(a_words) :
             /\ a_mapping[i].word = a_words[i].word
             /\ a_mapping[i].start_time = AbsoluteStart(i)
             /\ a_mapping[i].end_time = AbsoluteEnd(i)
             /\ a_mapping[i].speaker = Resolved(i)

C6_Witness ==
    /\ Mapped
    /\ Len(a_words) = 3
    /\ \E i \in 1..Len(a_words) :
         /\ TimelineLookup(AbsoluteEnd(i), a_events) # Resolved(i)
         /\ a_mapping[i].speaker = Resolved(i)

\* C7: when every word resolves to the same speaker identity, exactly one
\* segment is produced, with the full text, from the first word's
\* absolute_start to the last word's absolute_end; when no speaker was found
\* for any word it is the segment of "Unknown Speaker", identity null,
\* confidence 0.30.
AllSameIdentity ==
    \A i, j \in 1..Len(a_words) : IdentityOf(Resolved(i)) = IdentityOf(Resolved(j))

AllUnknown == \A i \in 1..Len(a_words) : Resolved(i) = None

C7_SingleSpeakerSingleSegment ==
    (Grouped /\ Len(a_words) > 0 /\ AllSameIdentity) =>
        /\ Len(a_segments) = 1
        /\ a_segments[1].text = JoinWords(WordTextsOf(a_words))
        /\ a_segments[1].start_time = AbsoluteStart(1)
        /\ a_segments[1].end_time = AbsoluteEnd(Len(a_words))
        /\ AllUnknown =>
             /\ a_segments[1].speaker_id = NULL
             /\ a_segments[1].speaker_name = UnknownSpeaker
             /\ a_segments[1].confidence = 30

C7_Witness ==
    /\ Grouped
    /\ Len(a_words) = 3
    /\ AllUnknown
    /\ AbsoluteEnd(3) # AbsoluteEnd(1)
    /\ Len(a_segments) = 1
    /\ a_segments[1].end_time = AbsoluteEnd(3)

\* C8: the confidence of a segment is the confidence of the attribution
\* that opened it; the words appended afterwards leave it as it is.
C8_SegmentConfidence ==
    Grouped =>
        \A k \in 1..Len(a_segments) :
            a_segments[k].confidence = a_mapping[FirstWordOf(a_segments, k)].confidence

C8_Witness ==
    /\ Grouped
    /\ \E k \in 1..Len(a_segments) :
         /\ a_segments[k].word_count >= 2
         /\ \E i \in WordsOfSegment(a_segments, k) :
              a_mapping[i].confidence # a_segments[k].confidence
         /\ a_segments[k].confidence = a_mapping[FirstWordOf(a_segments, k)].confidence

C10_AppendOnly ==
    [][ /\ Len(speaker_transcripts') >= Len(speaker_transcripts)
        /\ \A k \in 1..Len(speaker_transcripts) :
             speaker_transcripts'[k] = speaker_transcripts[k] ]_vars

C10_Witness ==
    /\ Len(speaker_transcripts) >= 2
    /\ speaker_transcripts[1].source_audio_chunk_id = 0
    /\ \E c \in Chunks :
         /\ speaker_transcripts[2].source_audio_chunk_id = c
         /\ speaker_transcripts[2].speaker_member_id = speaker_transcripts[1].speaker_member_id
         /\ run[c].pc = "returned"

PositionsOf(speaker) ==
    { p \in 1..Len(a_events) : a_events[p] = speaker[1] }

\* C29: in a chunk whose word start times never decrease, the event given
\* to a later word stands at the same place of the ordered event list as
\* the event given to an earlier word or after it, and once a word was given
\* an event no later word is left without one.
C29_MonotoneAttribution ==
    (Mapped /\ WordsInTimeOrder(a_words)) =>
        \A i, j \in 1..Len(a_mapping) :
            (i < j /\ a_mapping[i].speaker # None) =>
                /\ a_mapping[j].speaker # None
                /\ a_mapping[i].speaker[1].speaker_started_at
                      <= a_mapping[j].speaker[1].speaker_started_at
                /\ \E p \in PositionsOf(a_mapping[i].speaker),
                      q \in PositionsOf(a_mapping[j].speaker) : p <= q

\* The first word is given the first event of the list, the two later words
\* the second event, of another speaker.
C29_Witness ==
    /\ Mapped
    /\ Len(a_words) = 3 /\ WordsInTimeOrder(a_words)
    /\ a_words[1].start < a_words[2].start
    /\ Len(a_events) = 2
    /\ a_events[1].member_id # a_events[2].member_id
    /\ a_mapping[1].speaker = Some(a_events[1])
    /\ a_mapping[2].speaker = Some(a_events[2])
    /\ a_mapping[3].speaker = Some(a_events[2])

\* C30: every word of a segment has the lookup outcome of the segment's
\* first word, null member ids included: the words of a segment of
\* "Unknown Speaker" with confidence 0.30 are words for which no event was
\* found, the words of a segment with confidence 0.95 are words for which
\* one was.
C30_UniformSegments ==
    Grouped =>
        \A k \in 1..Len(a_segments) :
            \A i \in WordsOfSegment(a_segments, k) :
                /\ (a_mapping[i].speaker = None)
                      <=> (a_mapping[FirstWordOf(a_segments, k)].speaker = None)
                /\ ( /\ a_segments[k].confidence = ConfidenceUnknown
                      /\ a_segments[k].speaker_name = UnknownSpeaker )
                      => a_mapping[i].speaker = None
                /\ a_segments[k].confidence = ConfidenceFound
                      => a_mapping[i].speaker # None

(***************************************************************************)
(* Properties of the orchestrator                                          *)
(***************************************************************************)
LacksTiming(c) ==
    /\ audio_chunks[c] # None
    /\ Row(c).audio_started_at = NoTime \/ Row(c).audio_ended_at = NoTime

NoWordData(c) ==
    /\ audio_chunks[c] # None
    /\ Row(c).chunk_transcript.format # "json" \/ Row(c).chunk_transcript.words = <<>>

\* The ids of the persisted rows of chunk c.
RowIdsOfChunk(c) ==
    { speaker_transcripts[k].id :
        k \in { j \in 1..Len(speaker_transcripts) :
                  speaker_transcripts[j].source_audio_chunk_id = c } }

BroadcastIds == { broadcasts[k] : k \in 1..Len(broadcasts) }

\* The checkpoint tasks queued for the meeting and chunk number of chunk c.
CheckpointsOf(c) ==
    { k \in 1..Len(checkpoints) :
        checkpoints[k] = <<Row(c).meeting_id, Row(c).chunk_id>> }

\* C11: for a chunk that lacks audio_started_at or audio_ended_at, or whose
\* transcript carries no word-level data, the orchestrator never gets past
\* its read phase: it returns normally (an exception leaves it only when the
\* datastore failed under the read itself), no segment of the chunk is ever
\* persisted or broadcast, and no checkpoint task is queued for it.
C11_MissingDataSkip ==
    \A c \in MapperChunks :
        (LacksTiming(c) \/ NoWordData(c)) =>
            /\ run[c].pc \in {"idle", "m_phase1", "m_returned", "m_raised"}
            /\ run[c].pc = "m_raised" => run[c].error = "DatastoreError"
            /\ RowIdsOfChunk(c) = {}
            /\ CheckpointsOf(c) = {}

C11_Witness ==
    \E c, d \in MapperChunks :
        /\ audio_chunks[c] # None
        /\ Row(c).audio_started_at # NoTime /\ Row(c).audio_ended_at = NoTime
        /\ ~NoWordData(c)
        /\ mapper_calls[c] = 1 /\ run[c].pc = "m_returned"
        /\ run[d].pc = "m_returned" /\ RowIdsOfChunk(d) # {}
        /\ RowIdsOfChunk(d) \subseteq BroadcastIds

\* The exceptions of the notifications: the broadcast of a segment, the push
\* to the external transcript service, the queueing of the checkpoint task.
NotificationErrors == {"BroadcastError", "PushError", "QueueError"}

\* C12: no step lets the failure of a notification leave the orchestrator,
\* and no step removes or changes a persisted segment.
C12_NotificationFailureSwallowed ==
    [][ /\ \A c \in MapperChunks :
             run'[c].pc = "m_raised" => run'[c].error \notin NotificationErrors
        /\ Len(speaker_transcripts') >= Len(speaker_transcripts)
        /\ \A k \in 1..Len(speaker_transcripts) :
             speaker_transcripts'[k] = speaker_transcripts[k] ]_vars

\* The persisted rows of chunk c before and after a step.
RowsBefore(c) == RowsOfChunk(speaker_transcripts, c)
RowsAfter(c) == RowsOfChunk(speaker_transcripts', c)

\* A step persists, for chunk c, one row per segment of the run, or none.
AllOrNothing(c) ==
    \/ RowsAfter(c) = RowsBefore(c)
    \/ /\ run[c].pc = "m_phase3"
       /\ Len(RowsAfter(c)) = Len(RowsBefore(c)) + Len(run[c].segments)
       /\ \A k \in 1..Len(run[c].segments) :
            /\ RowsAfter(c)[Len(RowsBefore(c)) + k].start_time
                   = run[c].segments[k].start_time
            /\ RowsAfter(c)[Len(RowsBefore(c)) + k].speaker_member_id
                   = run[c].segments[k].speaker_id

\* C13 (as stated): a step of the alignment computation or of the
\* persistence step that ends with an exception leaves the chunk without
\* segments, and every step persists the segments of a run all or none.
C13_NoSegmentsAfterException ==
    [][ \A c \in MapperChunks :
          /\ ( /\ run[c].pc \in {"m_phase2", "m_phase3", "m_phase3_saved"}
                /\ run'[c].pc = "m_raised" ) => RowsAfter(c) = <<>>
          /\ AllOrNothing(c) ]_vars

\* C13 (amended): a step of the alignment computation that ends with an
\* exception leaves the chunk without segments; a step of the persistence
\* step that ends with an exception leaves it without segments (the
\* exception came before the commit had succeeded) or with all the segments
\* of the run (it came after the commit, from the query that reads the rows
\* back); every step persists the segments of a run all or none.
C13_AllOrNothingBatch ==
    [][ \A c \in MapperChunks :
          /\ (run[c].pc \in {"m_phase2", "m_phase3"} /\ run'[c].pc = "m_raised")
                => RowsAfter(c) = <<>>
          /\ (run[c].pc = "m_phase3_saved" /\ run'[c].pc = "m_raised")
                => Len(RowsAfter(c)) = Len(run[c].segments)
          /\ AllOrNothing(c) ]_vars

\* The computation of one run ended with an exception and its chunk has no
\* row; another run ended with an exception after its commit and its chunk
\* has the two rows of the run, none of them broadcast.
C13_Witness ==
    \E c, d \in MapperChunks :
        /\ run[c].pc = "m_raised" /\ run[c].error = "TypeError"
        /\ RowsOfChunk(speaker_transcripts, c) = <<>>
        /\ run[d].pc = "m_raised" /\ run[d].error = "DatastoreError"
        /\ Len(RowsOfChunk(speaker_transcripts, d)) = 2
        /\ RowIdsOfChunk(d) \cap BroadcastIds = {}

\* The speaker identity the timeline of the events gives each word.
ExpectedIdentities(words, events, anchor) ==
    [ i \in 1..Len(words) |->
        IdentityOf(TimelineLookup(anchor + words[i].start, events)) ]

\* A list without its immediate repetitions.
RECURSIVE Runs(_)
Runs(ids) ==
    IF Len(ids) <= 1 THEN ids
    ELSE IF ids[1] = ids[2] THEN Runs(Tail(ids))
         ELSE <<ids[1]>> \o Runs(Tail(ids))

\* The events of the list, whatever their order.
EventBag(events) ==
    [ e \in { events[k] : k \in 1..Len(events) } |->
        Cardinality({ k \in 1..Len(events) : events[k] = e }) ]

\* The events a meeting had when its table held its first n rows.
EventsAmongFirst(meeting_id, n) ==
    LET rows == SelectSeq(SubSeq(speaker_events, 1, n),
                          LAMBDA e : e.meeting_id = meeting_id)
    IN  [ k \in 1..Len(rows) |->
            Event(rows[k].member_id, rows[k].member_name, rows[k].speaker_started_at) ]

\* C15: the list an invocation copied is the list of its own meeting's
\* events at the moment of its read, however many events are appended
\* afterwards; the segments it produces, and the rows it persists, have the
\* speakers the timeline of that copy gives the chunk's words, whatever is
\* appended and whatever the other invocation does in the meantime.
C15_SnapshotOnly ==
    \A c \in MapperChunks :
        run[c].pc \in {"m_phase2", "m_phase3", "m_phase3_saved", "m_phase4", "m_phase5"} =>
            LET expected == Runs(ExpectedIdentities(
                                Row(c).chunk_transcript.words,
                                run[c].speaker_events_data, Row(c).audio_started_at))
                rows == RowsOfChunk(speaker_transcripts, c)
            IN  /\ IsOrdered(run[c].speaker_events_data)
                /\ \E n \in 0..Len(speaker_events) :
                     EventBag(run[c].speaker_events_data)
                        = EventBag(EventsAmongFirst(Row(c).meeting_id, n))
                /\ run[c].pc = "m_phase3" =>
                     [ k \in 1..Len(run[c].segments) |-> run[c].segments[k].speaker_id ]
                        = expected
                /\ run[c].pc \in {"m_phase3_saved", "m_phase4", "m_phase5"} =>
                     [ k \in 1..Len(rows) |-> rows[k].speaker_member_id ] = expected

\* An invocation persisted the row its copy without events gives, after an
\* event that would have split the chunk in two segments was appended to its
\* meeting, and while the other invocation persisted rows with that event.
C15_Witness ==
    \E c, d \in MapperChunks :
        /\ audio_chunks[c] # None /\ audio_chunks[d] # None
        /\ run[c].pc = "m_phase4"
        /\ run[c].speaker_events_data = <<>>
        /\ EventsOf(Row(c).meeting_id) # <<>>
        /\ Len(RowsOfChunk(speaker_transcripts, c)) = 1
        /\ Len(Runs(ExpectedIdentities(Row(c).chunk_transcript.words,
                     EventsAmongFirst(Row(c).meeting_id, Len(speaker_events)),
                     Row(c).audio_started_at))) = 2
        /\ Row(d).meeting_id = Row(c).meeting_id
        /\ Len(RowsOfChunk(speaker_transcripts, d)) = 2

\* C16: while an invocation is between its read phase and its write phase,
\* before the resolver and grouper run and after they have run, it holds
\* no datastore session: the read session is closed, the write session is
\* not yet open; and the step of the computation touches no table.
C16_NoSessionWhileComputing ==
    [][ \A c \in MapperChunks :
          /\ run[c].pc \in {"m_phase2", "m_phase3"} => run[c].db_sessions = 0
          /\ run'[c].pc \in {"m_phase2", "m_phase3"} => run'[c].db_sessions = 0
          /\ (run[c].pc = "m_phase2" /\ run'[c] # run[c]) =>
                /\ run'[c].db_sessions = 0
                /\ UNCHANGED store_vars ]_vars

\* One invocation has computed its segments with no session open while the
\* other holds the session of its write phase.
C16_Witness ==
    \E c, d \in MapperChunks :
        /\ run[c].pc = "m_phase3" /\ Len(run[c].segments) = 2
        /\ run[c].db_sessions = 0
        /\ run[d].pc = "m_phase3_saved" /\ run[d].db_sessions = 1

DueBy(c, fallback) ==
    LET meeting == meetings[Row(c).meeting_id]
        frequency == IF meeting # None /\ meeting[1].non_voting_call_frequency # 0
                     THEN meeting[1].non_voting_call_frequency
                     ELSE fallback
    IN  /\ meeting # None
        /\ meeting[1].non_voting_enabled
        /\ frequency # 0
        /\ Row(c).chunk_id % frequency = 0

\* The orchestrator persisted the segments of chunk c and ran to its end.
Completed(c) ==
    run[c].pc = "m_returned" /\ RowIdsOfChunk(c) # {}

\* C18 as stated: for every chunk the orchestrator was invoked for and has
\* ended, the checkpoint was queued exactly when the feature is enabled for
\* the chunk's meeting and the chunk's number is a multiple of the meeting's
\* own frequency.
C18_TriggerForEveryInvokedChunk ==
    \A c \in MapperChunks :
        (audio_chunks[c] # None /\ run[c].pc \in {"m_returned", "m_raised"}) =>
            (CheckpointsOf(c) # {} <=> DueBy(c, 0))

\* C18, amended: the checkpoint of a chunk is queued, once, exactly when the
\* orchestrator persisted the chunk's segments and ran to its end, the
\* feature is enabled for the chunk's meeting, and the chunk's number is a
\* multiple of the meeting's own frequency, or of the global setting when
\* the meeting has none; it is queued for no other chunk.
C18_TriggerWhenDue ==
    /\ \A c \in MapperChunks :
          audio_chunks[c] # None =>
              /\ Cardinality(CheckpointsOf(c)) <= 1
              /\ CheckpointsOf(c) # {} <=>
                    (Completed(c) /\ DueBy(c, non_voting_call_frequency))
    /\ \A k \in 1..Len(checkpoints) :
          \E d \in MapperChunks :
              audio_chunks[d] # None /\ k \in CheckpointsOf(d)

\* One chunk's checkpoint was queued by its meeting's own frequency, where
\* the global one would not have; the other chunk, of a meeting without a
\* frequency of its own, was completed without a checkpoint.
C18_Witness ==
    \E c, d \in MapperChunks :
        /\ audio_chunks[c] # None /\ audio_chunks[d] # None
        /\ Completed(c) /\ CheckpointsOf(c) # {}
        /\ Row(c).chunk_id % non_voting_call_frequency # 0
        /\ Completed(d) /\ CheckpointsOf(d) = {}
        /\ meetings[Row(d).meeting_id] # None
        /\ meetings[Row(d).meeting_id][1].non_voting_enabled
        /\ meetings[Row(d).meeting_id][1].non_voting_call_frequency = 0

\* The place of a position in the order of the orchestrator's phases.
PhaseRank(pc) ==
    CASE pc = "idle"           -> 0
      [] pc = "m_phase1"       -> 1
      [] pc = "m_phase2"       -> 2
      [] pc = "m_phase3"       -> 3
      [] pc = "m_phase3_saved" -> 4
      [] pc = "m_phase4"       -> 5
      [] pc = "m_phase5"       -> 6
      [] OTHER                 -> 7

RaisedDatastoreError(r) ==
    r.pc = "m_raised" /\ r.error = "DatastoreError"

\* C19: a step of the read phase or of the write phase ends in the next
\* phase, in the return of a skipped chunk, or in a datastore exception that
\* leaves the orchestrator, with the tables as the datastore left them; no
\* step of an invocation goes back to a phase or stays in one, so each phase
\* is executed at most once, and the orchestrator is not invoked again.
C19_DatastoreFailurePropagates ==
    [][ \A c \in MapperChunks :
          run'[c] # run[c] =>
              /\ PhaseRank(run'[c].pc) > PhaseRank(run[c].pc)
              /\ run[c].pc # "idle" => mapper_calls'[c] = mapper_calls[c]
              /\ run[c].pc = "m_phase1" =>
                    \/ run'[c].pc = "m_phase2" /\ ~MissingData(c)
                    \/ run'[c].pc = "m_returned" /\ MissingData(c)
                    \/ RaisedDatastoreError(run'[c])
              /\ run[c].pc = "m_phase3" =>
                    \/ run'[c].pc = "m_phase3_saved"
                    \/ RaisedDatastoreError(run'[c]) /\ UNCHANGED store_vars
              /\ run[c].pc = "m_phase3_saved" =>
                    \/ run'[c].pc = "m_phase4"
                    \/ RaisedDatastoreError(run'[c]) /\ UNCHANGED store_vars
      ]_vars

\* A datastore exception left the read phase of one invocation, for a chunk
\* that would have been skipped, and the other invocation after its rows
\* were committed and before any was handed over; each was invoked once.
C19_Witness ==
    \E c, d \in MapperChunks :
        /\ RaisedDatastoreError(run[c]) /\ MissingData(c)
        /\ RaisedDatastoreError(run[d]) /\ ~MissingData(d)
        /\ RowIdsOfChunk(d) # {} /\ RowIdsOfChunk(d) \cap BroadcastIds = {}
        /\ mapper_calls[c] = 1 /\ mapper_calls[d] = 1

\* The stored transcript of chunk c is a legacy plain text or a text that
\* does not parse as JSON.
LegacyOrMalformed(c) ==
    /\ audio_chunks[c] # None
    /\ Row(c).chunk_transcript.format \in {"text", "malformed"}

\* C20: for a chunk whose stored transcript is malformed or in the legacy
\* format the orchestrator never gets past its read phase and returns as for
\* missing data: no exception of the parsing leaves it (only one of the
\* datastore can), no row of the chunk is persisted, nothing is broadcast
\* or queued for it.
C20_MalformedTranscriptSkipped ==
    \A c \in MapperChunks :
        LegacyOrMalformed(c) =>
            /\ run[c].pc \in {"idle", "m_phase1", "m_returned", "m_raised"}
            /\ run[c].pc = "m_raised" => run[c].error = "DatastoreError"
            /\ RowIdsOfChunk(c) = {}
            /\ CheckpointsOf(c) = {}

\* The orchestrator returned for a malformed transcript and for a legacy
\* one, both with audio timing, in a meeting whose checkpoint would be due.
C20_Witness ==
    \E c, d \in MapperChunks :
        /\ LegacyOrMalformed(c) /\ Row(c).chunk_transcript.format = "malformed"
        /\ LegacyOrMalformed(d) /\ Row(d).chunk_transcript.format = "text"
        /\ ~LacksTiming(c) /\ ~LacksTiming(d)
        /\ run[c].pc = "m_returned" /\ run[d].pc = "m_returned"
        /\ mapper_calls[c] = 1 /\ mapper_calls[d] = 1
        /\ DueBy(c, non_voting_call_frequency)
        /\ speaker_transcripts = <<>> /\ broadcasts = <<>> /\ checkpoints = <<>>

\* The segment of the list that holds the word at position i.
SegmentOfWord(segments, i) ==
    CHOOSE k \in 1..Len(segments) : i \in WordsOfSegment(segments, k)

\* C21: the list an invocation copied is its meeting's whole event history
\* at the moment of the read, whatever the events' distance from the chunk;
\* and a word for which some copied event started at or before its absolute
\* start lies in a segment of the speaker of the last such event, however
\* long before the chunk's audio_started_at that event started.
C21_CrossChunkContinuity ==
    \A c \in MapperChunks :
        run[c].pc = "m_phase3" =>
            LET events == run[c].speaker_events_data
                words == Row(c).chunk_transcript.words
                anchor == Row(c).audio_started_at
            IN  /\ \E n \in 0..Len(speaker_events) :
                     EventBag(events) = EventBag(EventsAmongFirst(Row(c).meeting_id, n))
                /\ \A i \in 1..Len(words) :
                     StartedBy(anchor + words[i].start, events) # {} =>
                        run[c].segments[SegmentOfWord(run[c].segments, i)].speaker_id
                            = events[MaxOf(StartedBy(anchor + words[i].start, events))].member_id

\* The words of a chunk that starts two minutes after the others are given
\* to the speaker whose only event started 114 seconds before the chunk.
C21_Witness ==
    \E c \in MapperChunks :
        /\ run[c].pc = "m_phase3"
        /\ Len(run[c].speaker_events_data) = 1
        /\ run[c].audio_started_at
              >= run[c].speaker_events_data[1].speaker_started_at + 1000
        /\ Len(run[c].words) = 2
        /\ Len(run[c].segments) = 1
        /\ run[c].segments[1].speaker_id = run[c].speaker_events_data[1].member_id

NonDecreasing(times) ==
    \A k \in 1..Len(times) - 1 : times[k] <= times[k + 1]

\* The elements of a set of numbers, in ascending order.
Ascending(S) ==
    CHOOSE f \in [1..Cardinality(S) -> S] :
        \A j, k \in 1..Cardinality(S) : j < k => f[j] < f[k]

\* The positions at which a new speaker identity begins in the list.
RunStarts(ids) ==
    Ascending({ i \in 1..Len(ids) : i = 1 \/ ids[i] # ids[i - 1] })

\* The absolute start of the first word of each run of words of one speaker.
ExpectedStarts(words, events, anchor) ==
    LET starts == RunStarts(ExpectedIdentities(words, events, anchor))
    IN  [ k \in 1..Len(starts) |-> anchor + words[starts[k]].start ]

\* C22: for a chunk whose words are in non-decreasing time order, the
\* segments an invocation produced, and the rows of the chunk in the order
\* the table holds them, start where the first word of each run of one
\* speaker starts, absolute_start = audio_started_at + relative start, and
\* these start times never decrease, whatever the other invocation of the
\* meeting persisted before, between or after.
C22_SegmentStartOrder ==
    \A c \in MapperChunks :
        ( /\ run[c].pc \in {"m_phase3", "m_phase3_saved", "m_phase4", "m_phase5"}
          /\ WordsInTimeOrder(Row(c).chunk_transcript.words) ) =>
            LET expected == ExpectedStarts(Row(c).chunk_transcript.words,
                                           run[c].speaker_events_data,
                                           Row(c).audio_started_at)
                rows == RowsOfChunk(speaker_transcripts, c)
            IN  /\ NonDecreasing(expected)
                /\ run[c].pc = "m_phase3" =>
                     [ k \in 1..Len(run[c].segments) |-> run[c].segments[k].start_time ]
                        = expected
                /\ run[c].pc # "m_phase3" =>
                     [ k \in 1..Len(rows) |-> rows[k].start_time ] = expected

\* The row of the later chunk of a meeting was persisted before the two rows
\* of an earlier chunk of the same meeting: the table is not in the order of
\* the start times, the rows of each chunk are.
C22_Witness ==
    /\ Len(speaker_transcripts) = 3
    /\ speaker_transcripts[1].start_time > speaker_transcripts[2].start_time
    /\ speaker_transcripts[2].start_time < speaker_transcripts[3].start_time
    /\ speaker_transcripts[1].meeting_id = speaker_transcripts[2].meeting_id
    /\ speaker_transcripts[1].source_audio_chunk_id
          # speaker_transcripts[2].source_audio_chunk_id
    /\ speaker_transcripts[2].source_audio_chunk_id
          = speaker_transcripts[3].source_audio_chunk_id
    /\ \A c \in MapperChunks : run[c].pc = "m_phase4"

\* The stored transcript of chunk c is a JSON document with an empty word
\* list.
EmptyWordList(c) ==
    /\ audio_chunks[c] # None
    /\ Row(c).chunk_transcript.format = "json"
    /\ Row(c).chunk_transcript.words = <<>>

\* C24: the resolver and the grouper give no attribution and no segment for
\* an empty word list, whatever events an invocation copied; and the
\* orchestrator invoked for a chunk with an empty word list returns
\* normally (only a failure of the datastore read can leave it as an
\* exception) and persists, broadcasts and queues nothing for the chunk.
C24_EmptyInput ==
    \A c \in MapperChunks :
        /\ _group_words_into_segments(<<>>) = <<>>
        /\ _group_words_into_segments(
               _map_words_to_speakers(<<>>, run[c].speaker_events_data,
                                      run[c].audio_started_at)) = <<>>
        /\ EmptyWordList(c) =>
              /\ run[c].pc = "m_raised" => RaisedDatastoreError(run[c])
              /\ run[c].segments = <<>>
              /\ RowIdsOfChunk(c) = {}
              /\ CheckpointsOf(c) = {}

\* The orchestrator returned for a chunk with an empty word list and audio
\* timing, after an event was posted to its meeting, while the other
\* invocation persisted the rows of its chunk.
C24_Witness ==
    \E c, d \in MapperChunks :
        /\ EmptyWordList(c) /\ ~LacksTiming(c)
        /\ mapper_calls[c] = 1 /\ run[c].pc = "m_returned"
        /\ EventsOf(Row(c).meeting_id) # <<>>
        /\ RowIdsOfChunk(c) = {}
        /\ Completed(d)

\* The sequence after the step keeps every element of the one before it, at
\* its place.
Extends(after, before) ==
    /\ Len(after) >= Len(before)
    /\ \A k \in 1..Len(before) : after[k] = before[k]

\* C26: a step of the invocation for chunk c adds only rows whose source
\* chunk is c and whose meeting is the meeting of c, and leaves the speaker
\* events, the audio chunk rows, the meetings and the rows of every other
\* chunk as they were; the speaker events are only ever appended to, one
\* at a time, by a step that is no step of an invocation.
C26_WritesOnlyOwnSegments ==
    [][ /\ Extends(speaker_events', speaker_events)
        /\ Len(speaker_events') <= Len(speaker_events) + 1
        /\ speaker_events' # speaker_events => run' = run
        /\ \A c \in MapperChunks :
             run'[c] # run[c] =>
                 /\ UNCHANGED <<speaker_events, audio_chunks, meetings>>
                 /\ Extends(speaker_transcripts', speaker_transcripts)
                 /\ \A k \in (Len(speaker_transcripts) + 1)..Len(speaker_transcripts') :
                      /\ speaker_transcripts'[k].source_audio_chunk_id = c
                      /\ speaker_transcripts'[k].meeting_id = Row(c).meeting_id
                 /\ \A d \in MapperChunks \ {c} :
                      RowsOfChunk(speaker_transcripts', d)
                         = RowsOfChunk(speaker_transcripts, d) ]_vars

\* Two invocations of one meeting each persisted its two rows, after an
\* event of the meeting was appended.
C26_Witness ==
    \E c, d \in MapperChunks :
        /\ c # d
        /\ audio_chunks[c] # None /\ audio_chunks[d] # None
        /\ Row(c).meeting_id = Row(d).meeting_id
        /\ Len(EventsOf(Row(c).meeting_id)) = 1
        /\ Len(speaker_transcripts) = 4
        /\ speaker_transcripts[2].source_audio_chunk_id = c
        /\ speaker_transcripts[3].source_audio_chunk_id = d
        /\ speaker_transcripts[3].meeting_id = Row(d).meeting_id

(***************************************************************************)
(* Properties of the pipeline                                              *)
(***************************************************************************)
AllRowIds == { speaker_transcripts[k].id : k \in 1..Len(speaker_transcripts) }

\* C14: the orchestrator is invoked for a chunk only once the chunk's
\* transcript is stored and its status is completed; a row is handed to the
\* broadcast channel only once it is committed, and the checkpoint of a
\* chunk is queued only once the chunk's rows are; a chunk whose alignment
\* was skipped (never invoked for want of an audio start, or returned from
\* for missing data) has no row, no broadcast and no checkpoint.
C14_PipelineOrder ==
    /\ BroadcastIds \subseteq AllRowIds
    /\ \A c \in Chunks :
         /\ mapper_calls[c] > 0 =>
              /\ audio_chunks[c] # None
              /\ Row(c).transcription_status = "completed"
              /\ Row(c).chunk_transcript.format = "json"
         /\ RowIdsOfChunk(c) # {} =>
              /\ mapper_calls[c] > 0
              /\ ~LacksTiming(c) /\ ~NoWordData(c)
              /\ run[c].pc \in {"m_phase3_saved", "m_phase4", "m_phase5",
                                 "m_returned", "m_raised", "returned"}
         /\ audio_chunks[c] # None /\ CheckpointsOf(c) # {} => RowIdsOfChunk(c) # {}

C14_Witness ==
    \E c \in Chunks :
        /\ run[c].pc = "returned"
        /\ Row(c).transcription_status = "completed"
        /\ Len(RowsOfChunk(speaker_transcripts, c)) = 2
        /\ RowIdsOfChunk(c) \subseteq BroadcastIds
        /\ CheckpointsOf(c) # {}

\* C25: the Celery task retries a failed transcription: a chunk of a Celery
\* run has the status failed only once the three retries are used up, and
\* once they are used up the chunk's status is failed.
C25_RetriesThenFailed ==
    \A c \in Chunks :
        (run[c].kind = "celery" /\ audio_chunks[c] # None) =>
            /\ Row(c).transcription_status = "failed" => run[c].retries = max_retries
            /\ run[c].pc = "exhausted" => Row(c).transcription_status = "failed"

\* The runner of chunk c has ended and nothing will run for the chunk again:
\* it returned, it raised in a background task (nothing retries it), or the
\* retries of its Celery task are used up.
RunnerEnded(c) ==
    \/ run[c].pc \in {"returned", "exhausted"}
    \/ run[c].pc = "raised" /\ run[c].kind = "background"

\* C27: no chunk remains processing forever: once the runner of a chunk has
\* ended for good, the chunk's status is not processing.
C27_NeverLeftProcessing ==
    \A c \in Chunks :
        (audio_chunks[c] # None /\ RunnerEnded(c)) =>
            Row(c).transcription_status # "processing"

\* C28: an invocation of transcribe_chunk_async, with the orchestrator it
\* calls, never holds more than one datastore session, holds one only
\* between the commit and the query-back of the orchestrator's write phase,
\* and holds none once it has returned or raised, whatever path it took.
C28_SessionsClosed ==
    \A c \in Chunks :
        /\ run[c].db_sessions \in {0, 1}
        /\ run[c].db_sessions = 1 => run[c].pc = "m_phase3_saved"
        /\ run[c].pc \in {"returned", "raised", "exhausted", "m_returned", "m_raised"}
              => run[c].db_sessions = 0

\* In a Celery run that raised in an earlier attempt, a datastore exception
\* has left the orchestrator after its commit: the rows are persisted and no
\* session is open.
C28_Witness ==
    \E c \in Chunks :
        /\ run[c].kind = "celery" /\ run[c].retries >= 1
        /\ RaisedDatastoreError(run[c])
        /\ RowIdsOfChunk(c) # {}
        /\ RowIdsOfChunk(c) \cap BroadcastIds = {}
        /\ run[c].db_sessions = 0

====
